---- MODULE Spec2Model ----
(***************************************************************************)
(* Model of obj-to-pathfinding-grid: the coordinate mapper (LocalVector),  *)
(* the triangle/voxel separating-axis test (Triangle::is_inside), the      *)
(* obstacle scanner (find_obstacles) and the aggregator (convert).         *)
(*                                                                         *)
(* Numbers.  An f32 is modelled as an integer count of HALVES (the f32     *)
(* 1.5 is the integer 3): every f32 operation the code performs on such    *)
(* values is exact, and halves are the values on which f32::round has a    *)
(* tie.  Products of two f32 are therefore counted in quarters and         *)
(* products of three in eighths.  i32/u32 values are plain integers in     *)
(* whole units.  A vector is a tuple <<x, y, z>>.                          *)
(*                                                                         *)
(* Two f32 values outside the range of halves are modelled too: FarPos is  *)
(* the f32 2147483648.0 (2^31) and FarNeg is -2147483648.0; they are the   *)
(* nearest values at which `as i32` reaches the ends of the i32 range.     *)
(***************************************************************************)
EXTENDS Integers, Sequences, FiniteSets, TLC

VARIABLES
    pc,              \* position of the operation under way
    center,          \* center: Vector3<f32>, halves
    width,           \* width: u32
    height,          \* height: u32
    world,           \* from_world_vector's argument `vector`: Vector3<f32>
    local,           \* the LocalVector from_world_vector returned
    back,            \* the Vector3<i32> to_world_vector returned
    triangle,        \* the Triangle under test: <<a, b, c>>
    voxel,           \* is_inside's argument `vector`: Vector3<i32>
    inside,          \* is_inside's results, one per vertex ordering
    bbox,            \* the BoundingBox bounding_box returned: <<min, max>>
    found,           \* the Vec<LocalVector> find_obstacles returned
    triangles,       \* convert's argument `triangles`
    preprocessor,    \* the injected Preprocessor: its result for each triangle
    length,          \* convert's `length`: the number of triangles
    current,         \* convert's counter `current`
    percent,         \* convert's `percent`: the last value it computed
    obstacles,       \* convert's Vec `obstacles`
    scanned,         \* the triangles handed to find_obstacles, in order
    progress,        \* the arguments of the update_progress calls, in order
    grid,            \* number of Grid::new calls so far
    setCalls         \* the arguments of the set_obstacle calls, in order

vars == <<pc, center, width, height, world, local, back,
          triangle, voxel, inside, bbox, found, triangles, preprocessor, length,
          current, percent, obstacles, scanned, progress, grid, setCalls>>

mapVars == <<world, local, back>>
satVars == <<voxel, inside, bbox>>
convertVars == <<triangles, preprocessor, length, current, percent,
                 obstacles, scanned, progress, grid, setCalls>>

----------------------------------------------------------------------------
(* Bounds of the model.                                                    *)

\* center coordinates range over -MaxCenter..MaxCenter halves
MaxCenter == 4
\* world coordinates of the mapper range over -MaxWorld..MaxWorld halves
MaxWorld == 4
\* width and height range over 0..MaxSize
MaxSize == 3
\* vertex coordinates range over 0..MaxCoord halves on X,
MaxCoord == 3
\* over 0..MaxCoordY halves on Y
MaxCoordY == 2
\* and over 0..MaxCoordZ halves on Z
MaxCoordZ == 1
\* convert is given at most MaxTriangles triangles
MaxTriangles == 3
\* the percent expression is evaluated for up to MaxLength triangles,
MaxLength == 671089
\* and for the LengthSpan lengths before MaxLength
LengthSpan == 40

----------------------------------------------------------------------------
(* f32 and i32 arithmetic.                                                 *)

I32Max == 2147483647
I32Min == -I32Max - 1

\* the f32 values 2^31 and -2^31, which no count of halves can hold
FarPos == 1073741824
FarNeg == -FarPos

IsFar(f) == f = FarPos \/ f = FarNeg

Abs(n) == IF n < 0 THEN -n ELSE n
Min2(p, q) == IF p < q THEN p ELSE q
Max2(p, q) == IF p > q THEN p ELSE q
Min3(p, q, r) == Min2(Min2(p, q), r)
Max3(p, q, r) == Max2(Max2(p, q), r)

\* f32 subtraction p - q.  2^31 absorbs a small operand: the spacing of f32
\* values around 2^31 is 128 or more, so p - 2^31 rounds to -2^31.
F32Sub(p, q) ==
    IF IsFar(q) THEN -q
    ELSE IF IsFar(p) THEN p
    ELSE p - q

\* f32 addition p + q of a small q: 2^31 absorbs it
F32Add(p, q) == IF IsFar(p) THEN p ELSE p + q

\* f32::round: to the nearest integer, ties away from zero; result in units.
Round(f) == IF f >= 0 THEN (f + 1) \div 2 ELSE -((1 - f) \div 2)

\* `f.round() as i32`: the cast saturates at the ends of the i32 range.
RoundAsI32(f) ==
    IF f = FarPos THEN I32Max
    ELSE IF f = FarNeg THEN I32Min
    ELSE Round(f)

\* p - q overflows i32, for 0 <= p <= I32Max
SubOverflows(p, q) == q < 0 /\ p > I32Max + q

\* p - q in wrapping i32 arithmetic (release build), for 0 <= p <= I32Max
WrappingSub(p, q) ==
    IF SubOverflows(p, q) THEN (p + I32Min) + (I32Min - q) ELSE p - q

\* the bits of an f32 mantissa, the implicit one included
MantissaBits == 24

\* A positive f32 value is a pair <<m, e>> for m * 2^(-e), with
\* 2^23 <= m < 2^24.

\* round to nearest, ties to even: t is the quotient and r the remainder of
\* a division by d
RoundEven(t, r, d) ==
    IF 2 * r > d \/ (2 * r = d /\ t % 2 = 1) THEN t + 1 ELSE t

\* a mantissa that rounding carried to 2^24 is 2^23 one exponent higher
Carry(m, e) == IF m = 2^MantissaBits THEN <<m \div 2, e - 1>> ELSE <<m, e>>

RECURSIVE ShiftUp(_, _)
\* the least s from s on with n * 2^s >= 2^23
ShiftUp(n, s) ==
    IF n * 2^s >= 2^(MantissaBits - 1) THEN s ELSE ShiftUp(n, s + 1)

RECURSIVE ShiftDown(_, _)
\* the least s from s on with n / 2^s < 2^24
ShiftDown(n, s) ==
    IF n \div 2^s < 2^MantissaBits THEN s ELSE ShiftDown(n, s + 1)

\* `n as f32` for an integer 1 <= n < 2^31: the nearest f32
AsF32(n) ==
    IF n < 2^MantissaBits
    THEN LET s == ShiftUp(n, 0) IN <<n * 2^s, s>>
    ELSE LET s == ShiftDown(n, 0)
             d == 2^s
         IN  Carry(RoundEven(n \div d, n % d, d), -s)

\* f32 multiplication a * k for an f32 a and an integer 1 <= k < 128 (which
\* an f32 holds exactly): the product rounded to the nearest f32
F32Mul(a, k) ==
    LET p == AsF32(a[1] * k) IN <<p[1], p[2] + a[2]>>

RECURSIVE LongDiv(_, _, _, _)
\* k more binary digits of a quotient: t the digits so far, r the remainder,
\* d the divisor; gives <<quotient, remainder>>
LongDiv(t, r, d, k) ==
    IF k = 0 THEN <<t, r>>
    ELSE IF 2 * r >= d THEN LongDiv(2 * t + 1, 2 * r - d, d, k - 1)
    ELSE LongDiv(2 * t, 2 * r, d, k - 1)

\* f32 division a / b: the quotient rounded to the nearest f32
F32Div(a, b) ==
    LET k == IF a[1] >= b[1] THEN MantissaBits - 1 ELSE MantissaBits
        q == LongDiv(a[1] \div b[1], a[1] % b[1], b[1], k)
    IN  Carry(RoundEven(q[1], q[2], b[1]), k + a[2] - b[2])

\* the f32 100.0
Hundred == AsF32(100)

\* a <= b for two positive f32 values
F32Leq(a, b) == a[2] > b[2] \/ (a[2] = b[2] /\ a[1] <= b[1])

----------------------------------------------------------------------------
(* LocalVector                                                             *)

\* LocalAxis without the clamp to the upper border
LocalAxisNoMin(v, c, size) ==
    LET diff == F32Sub(c, v)
        half == size \div 2
    IN  Max2(WrappingSub(half, RoundAsI32(diff)), 0)

\* LocalAxis with the difference taken the other way round
LocalAxisFlipped(v, c, size) ==
    LET diff == F32Sub(v, c)
        half == size \div 2
        m == Max2(WrappingSub(half, RoundAsI32(diff)), 0)
    IN  Min2(m, size)

\* one axis of from_world_vector: `(half as i32 - diff.round() as i32)
\* .max(0) as u32` and then `.min(size)`
LocalAxis(v, c, size) ==
    LET diff == F32Sub(c, v)
        half == size \div 2
        m == Max2(WrappingSub(half, RoundAsI32(diff)), 0)
    IN  Min2(m, size)

from_world_vector(vector, c, w, h) ==
    <<LocalAxis(vector[1], c[1], w),
      LocalAxis(vector[2], c[2], w),
      LocalAxis(vector[3], c[3], h)>>

\* from_world_vector panics in a build with overflow checks when one of its
\* three subtractions overflows
FromWorldOverflows(vector, c, w, h) ==
    \/ SubOverflows(w \div 2, RoundAsI32(F32Sub(c[1], vector[1])))
    \/ SubOverflows(w \div 2, RoundAsI32(F32Sub(c[2], vector[2])))
    \/ SubOverflows(h \div 2, RoundAsI32(F32Sub(c[3], vector[3])))

\* one axis of to_world_vector
WorldAxis(l, c, size) ==
    LET half == size \div 2
        min == Round(c) - half
    IN  min + l

to_world_vector(self, c, w, h) ==
    <<WorldAxis(self[1], c[1], w),
      WorldAxis(self[2], c[2], w),
      WorldAxis(self[3], c[3], h)>>

----------------------------------------------------------------------------
(* Triangle                                                                *)

\* box_half_size: 0.5 on every axis, one half
BoxHalfSize == 1

Sub(p, q) == <<p[1] - q[1], p[2] - q[2], p[3] - q[3]>>
Dot(p, q) == p[1] * q[1] + p[2] * q[2] + p[3] * q[3]
Cross(p, q) == <<p[2] * q[3] - p[3] * q[2],
                 p[3] * q[1] - p[1] * q[3],
                 p[1] * q[2] - p[2] * q[1]>>

\* min_max_overlaps without the comparison of max
min_max_overlaps_min_only(box_half_size, v0, v1, v2) ==
    Min3(v0, v1, v2) > box_half_size

\* TRUE when the projections do NOT overlap (the code's name notwithstanding)
min_max_overlaps(box_half_size, v0, v1, v2) ==
    LET min == Min3(v0, v1, v2)
        max == Max3(v0, v1, v2)
    IN  min > box_half_size \/ max < -box_half_size

\* p1, p2 and radius are products of two f32: quarters
axis_test(edge_axis1, edge_axis2, point1_axis1, point1_axis2, point2_axis1, point2_axis2, box_half_size_axis1, box_half_size_axis2, sign) ==
    LET p1 == IF sign
              THEN edge_axis1 * point1_axis1 + edge_axis2 * point1_axis2
              ELSE edge_axis1 * point1_axis1 - edge_axis2 * point1_axis2
        p2 == IF sign
              THEN edge_axis1 * point2_axis1 + edge_axis2 * point2_axis2
              ELSE edge_axis1 * point2_axis1 - edge_axis2 * point2_axis2
        min == Min2(p1, p2)
        max == Max2(p1, p2)
        radius == Abs(edge_axis1) * box_half_size_axis1
                  + Abs(edge_axis2) * box_half_size_axis2
    IN  ~(min > radius \/ max < -radius)

axis_test_zy(point1, point2, box_half_size, edge) ==
    axis_test(edge[3], edge[2], point1[2], point1[3], point2[2], point2[3],
              box_half_size[2], box_half_size[3], FALSE)

axis_test_mzx(point1, point2, box_half_size, edge) ==
    axis_test(-edge[3], edge[1], point1[1], point1[3], point2[1], point2[3],
              box_half_size[1], box_half_size[3], TRUE)

axis_test_yx(point1, point2, box_half_size, edge) ==
    axis_test(edge[2], edge[1], point1[1], point1[2], point2[1], point2[2],
              box_half_size[1], box_half_size[2], FALSE)

\* Recentered with the box center added to the vertices
RecenteredAdds(t, vector) ==
    LET box_center == <<2 * vector[1], 2 * vector[2], 2 * vector[3]>>
    IN  <<Sub(t[1], Sub(<<0, 0, 0>>, box_center)),
          Sub(t[2], Sub(<<0, 0, 0>>, box_center)),
          Sub(t[3], Sub(<<0, 0, 0>>, box_center))>>

\* the triangle's vertices moved so that the box is centered at the origin
Recentered(t, vector) ==
    LET box_center == <<2 * vector[1], 2 * vector[2], 2 * vector[3]>>
    IN  <<Sub(t[1], box_center), Sub(t[2], box_center), Sub(t[3], box_center)>>

\* 1. the AABB test passes (none of the three early returns is taken)
AabbPasses(v0, v1, v2) ==
    /\ ~min_max_overlaps(BoxHalfSize, v0[1], v1[1], v2[1])
    /\ ~min_max_overlaps(BoxHalfSize, v0[2], v1[2], v2[2])
    /\ ~min_max_overlaps(BoxHalfSize, v0[3], v1[3], v2[3])

\* normal = e0.cross(&e1), in quarters
Normal(v0, v1, v2) == Cross(Sub(v1, v0), Sub(v2, v1))

\* PlanePasses with the two comparisons made inclusive
PlanePassesInclusive(v0, v1, v2) ==
    LET normal == Normal(v0, v1, v2)
        d == -Dot(normal, v0)
        v_min == [i \in 1..3 |->
                    IF normal[i] > 0 THEN -BoxHalfSize ELSE BoxHalfSize]
        v_max == [i \in 1..3 |->
                    IF normal[i] > 0 THEN BoxHalfSize ELSE -BoxHalfSize]
    IN  /\ ~(Dot(normal, v_min) + d >= 0)
        /\ ~(Dot(normal, v_max) + d <= 0)

\* 2. the plane test passes; normal.dot(..) + d is counted in eighths
PlanePasses(v0, v1, v2) ==
    LET normal == Normal(v0, v1, v2)
        d == -Dot(normal, v0)
        v_min == [i \in 1..3 |->
                    IF normal[i] > 0 THEN -BoxHalfSize ELSE BoxHalfSize]
        v_max == [i \in 1..3 |->
                    IF normal[i] > 0 THEN BoxHalfSize ELSE -BoxHalfSize]
    IN  /\ ~(Dot(normal, v_min) + d > 0)
        /\ ~(Dot(normal, v_max) + d < 0)

\* EdgesPass with the first test of edge #1 given the edge's own two ends
EdgesPassOwnEnds(v0, v1, v2) ==
    LET box_half_size == <<BoxHalfSize, BoxHalfSize, BoxHalfSize>>
        e0 == Sub(v1, v0)
        e1 == Sub(v2, v1)
        e2 == Sub(v0, v2)
    IN  /\ axis_test_zy(v0, v1, box_half_size, e0)
        /\ axis_test_mzx(v0, v2, box_half_size, e0)
        /\ axis_test_yx(v1, v2, box_half_size, e0)
        /\ axis_test_zy(v0, v2, box_half_size, e1)
        /\ axis_test_mzx(v0, v2, box_half_size, e1)
        /\ axis_test_yx(v0, v1, box_half_size, e1)
        /\ axis_test_zy(v0, v1, box_half_size, e2)
        /\ axis_test_mzx(v0, v1, box_half_size, e2)
        /\ axis_test_yx(v1, v2, box_half_size, e2)

\* 3. the nine edge-axis tests pass
EdgesPass(v0, v1, v2) ==
    LET box_half_size == <<BoxHalfSize, BoxHalfSize, BoxHalfSize>>
        e0 == Sub(v1, v0)
        e1 == Sub(v2, v1)
        e2 == Sub(v0, v2)
    IN  /\ axis_test_zy(v0, v2, box_half_size, e0)
        /\ axis_test_mzx(v0, v2, box_half_size, e0)
        /\ axis_test_yx(v1, v2, box_half_size, e0)
        /\ axis_test_zy(v0, v2, box_half_size, e1)
        /\ axis_test_mzx(v0, v2, box_half_size, e1)
        /\ axis_test_yx(v0, v1, box_half_size, e1)
        /\ axis_test_zy(v0, v1, box_half_size, e2)
        /\ axis_test_mzx(v0, v1, box_half_size, e2)
        /\ axis_test_yx(v1, v2, box_half_size, e2)

is_inside(t, vector) ==
    LET v == Recentered(t, vector)
    IN  /\ AabbPasses(v[1], v[2], v[3])
        /\ PlanePasses(v[1], v[2], v[3])
        /\ EdgesPass(v[1], v[2], v[3])

\* bounding_box with both corners taken from the first two vertices only
bounding_box_two(t) ==
    <<[i \in 1..3 |-> F32Sub(Min2(t[1][i], t[2][i]), 2)],
      [i \in 1..3 |-> F32Add(Max2(t[1][i], t[2][i]), 2)]>>

\* Triangle::bounding_box: <<min, max>>, inflated by 1.0 (two halves)
bounding_box(t) ==
    <<[i \in 1..3 |-> F32Sub(Min3(t[1][i], t[2][i], t[3][i]), 2)],
      [i \in 1..3 |-> F32Add(Max3(t[1][i], t[2][i], t[3][i]), 2)]>>

----------------------------------------------------------------------------
(* find_obstacles                                                          *)

RECURSIVE LoopZClosed(_, _, _, _, _, _, _, _)
\* LoopZ over the closed range `z..=max.z`
LoopZClosed(t, c, w, h, x, y, z, max) ==
    IF z > max[3] THEN <<>>
    ELSE LET local_vector == <<x, y, z>>
             global_vector == to_world_vector(local_vector, c, w, h)
         IN  (IF is_inside(t, global_vector) THEN <<local_vector>> ELSE <<>>)
             \o LoopZClosed(t, c, w, h, x, y, z + 1, max)

RECURSIVE LoopZ(_, _, _, _, _, _, _, _)
\* `for z in z..max.z`: the voxels of one column that pass is_inside
LoopZ(t, c, w, h, x, y, z, max) ==
    IF z >= max[3] THEN <<>>
    ELSE LET local_vector == <<x, y, z>>
             global_vector == to_world_vector(local_vector, c, w, h)
         IN  (IF is_inside(t, global_vector) THEN <<local_vector>> ELSE <<>>)
             \o LoopZ(t, c, w, h, x, y, z + 1, max)

RECURSIVE LoopY(_, _, _, _, _, _, _, _)
\* `for y in y..max.y`
LoopY(t, c, w, h, x, y, min, max) ==
    IF y >= max[2] THEN <<>>
    ELSE LoopZ(t, c, w, h, x, y, min[3], max)
         \o LoopY(t, c, w, h, x, y + 1, min, max)

RECURSIVE LoopX(_, _, _, _, _, _, _)
\* `for x in x..max.x`
LoopX(t, c, w, h, x, min, max) ==
    IF x >= max[1] THEN <<>>
    ELSE LoopY(t, c, w, h, x, min[2], min, max)
         \o LoopX(t, c, w, h, x + 1, min, max)

\* the corners of the local scan box: <<min, max>>
ScanBox(t, c, w, h) ==
    LET bb == bounding_box(t)
    IN  <<from_world_vector(bb[1], c, w, h), from_world_vector(bb[2], c, w, h)>>

find_obstacles(t, c, w, h) ==
    LET box == ScanBox(t, c, w, h)
    IN  LoopX(t, c, w, h, box[1][1], box[1], box[2])

----------------------------------------------------------------------------
(* Inputs                                                                  *)

CenterCoords == -MaxCenter..MaxCenter

\* centers, integer and fractional: every axis sees every coordinate of
\* CenterCoords, next to a zero and to the opposite coordinate
Centers == {<<c, 0, -c>> : c \in CenterCoords}
           \cup {<<0, c, c>> : c \in CenterCoords}

Sizes == 0..MaxSize

WorldCoords == (-MaxWorld..MaxWorld) \cup {FarPos, FarNeg}
WorldPoints == {<<x, y, z>> : x \in WorldCoords, y \in WorldCoords,
                              z \in WorldCoords}

\* vertices
Points == {<<x, y, z>> : x \in 0..MaxCoord, y \in 0..MaxCoordY,
                         z \in 0..MaxCoordZ}

\* voxels: the integer coordinates around the vertices
Voxels == {<<x, y, z>> : x \in 0..(MaxCoord \div 2),
                         y \in 0..(MaxCoordY \div 2),
                         z \in 0..((MaxCoordZ + 1) \div 2)}

\* lexicographic order of vectors
LexLess(p, q) ==
    \/ p[1] < q[1]
    \/ p[1] = q[1] /\ p[2] < q[2]
    \/ p[1] = q[1] /\ p[2] = q[2] /\ p[3] < q[3]

LexLeq(p, q) == p = q \/ LexLess(p, q)

\* the triangles over Points, degenerate ones included, one per set of
\* vertices; the orderings of the vertices are applied by Orderings
Triangles == {t \in Points \X Points \X Points :
                 LexLeq(t[1], t[2]) /\ LexLeq(t[2], t[3])}

\* the six orderings of three vertices
Orderings == {o \in [1..3 -> 1..3] : {o[1], o[2], o[3]} = {1, 2, 3}}

Reordered(t, o) == <<t[o[1]], t[o[2]], t[o[3]]>>

\* the triangles of the repository's tests test_is_inside and
\* test_bounding_box2 (halves)
TestTriangles ==
    { <<<<0, 0, 0>>, <<10, 10, 10>>, <<-10, 10, -10>>>>,
      <<<<0, 0, 0>>, <<10, 10, 0>>, <<-10, -10, 0>>>> }

\* the voxels of test_is_inside, and voxels inside, on the border of and
\* away from the two triangles
TestVoxels ==
    { <<0, 0, 0>>, <<5, 5, 5>>, <<-1, -1, -1>>, <<6, 6, 6>>, <<10, 5, 0>>,
      <<-3, 6, -2>>, <<0, 3, 0>>, <<0, 5, 0>>, <<1, 4, 1>>, <<-2, 3, -2>>,
      <<0, 1, 0>>, <<3, 3, 0>>, <<7, 7, 0>>, <<-7, -7, 0>>, <<0, 0, 2>>,
      <<0, 7, 0>> }

\* voxels beyond the vertex range, one or two units off on one axis
BeyondVoxels ==
    { <<2, 0, 0>>, <<3, 1, 0>>, <<0, 2, 0>>, <<1, 3, 1>>, <<0, 0, 2>>,
      <<1, 1, 3>>, <<-2, 0, 0>>, <<0, -2, 1>>, <<1, 0, -2>> }

\* triangles with coordinates of 2^31 and -2^31, where f32 values are 256
\* apart
FarTriangles ==
    { <<<<FarPos, 0, 0>>, <<FarPos, 2, 0>>, <<FarPos, 0, 1>>>>,
      <<<<0, FarNeg, 0>>, <<3, FarNeg, 1>>, <<1, FarNeg, 0>>>>,
      <<<<0, 0, FarNeg>>, <<2, 1, 0>>, <<0, 2, FarPos>>>> }

\* the triangles handed to the scanner: those with a vertex at the origin;
\* the centers move the grid over them
ScanTriangles == {t \in Triangles : t[1] = <<0, 0, 0>>}

\* the widths and heights of the scanned grids
ScanSizes == (MaxSize - 2)..MaxSize

\* the triangles convert is given: a degenerate one (a segment), one at the
\* lower corner of the grids and one across their upper border
ConvertPool ==
    { <<<<0, 0, 0>>, <<1, 1, 0>>, <<2, 2, 0>>>>,
      <<<<-2, -2, -2>>, <<-2, -1, -2>>, <<-1, -2, -1>>>>,
      <<<<0, 0, 0>>, <<3, 0, 0>>, <<0, 2, 1>>>> }

\* the centers convert is given
ConvertCenters == {<<0, 0, 0>>, <<1, 0, -1>>}

\* the <<width, height>> convert is given
ConvertSizes == {<<2, 3>>, <<3, 2>>}

\* Preprocessor::pre_process returns None
None == <<>>

\* a triangle moved down by one unit on X, as a preprocessor may do
Moved(t) == [i \in 1..3 |-> <<t[i][1] - 2, t[i][2], t[i][3]>>]

\* what a Preprocessor does with a triangle: it returns None, it returns
\* Some of the triangle unchanged as NoOpPreprocessor does, or it returns
\* Some of another triangle
PreKinds == {"None", "Same", "Moved"}

pre_process(kind, t) ==
    IF kind = "None" THEN None
    ELSE IF kind = "Same" THEN t
    ELSE Moved(t)

NoVector == <<>>
NoTriangle == <<>>

\* the values of the variables an operation does not use
IdleMap == world = NoVector /\ local = NoVector /\ back = NoVector
IdleSat == voxel = NoVector /\ inside = <<>> /\ bbox = <<>>
IdleConvert ==
    /\ triangles = <<>> /\ preprocessor = <<>> /\ length = 0 /\ current = 0
    /\ percent = None
    /\ obstacles = <<>> /\ scanned = <<>> /\ progress = <<>>
    /\ grid = 0 /\ setCalls = <<>>

----------------------------------------------------------------------------
(* The coordinate mapper: from_world_vector, then to_world_vector of its   *)
(* result.                                                                 *)

InitMap ==
    /\ pc = "map"
    /\ center \in Centers
    /\ width \in Sizes
    /\ height \in Sizes
    /\ world \in WorldPoints
    /\ local = NoVector
    /\ back = NoVector
    /\ triangle = NoTriangle
    /\ found = <<>>
    /\ IdleSat
    /\ IdleConvert

\* from_world_vector returns (always in a build without overflow checks)
FromWorldVector ==
    /\ pc = "map"
    /\ local' = from_world_vector(world, center, width, height)
    /\ pc' = "mapped"
    /\ UNCHANGED <<center, width, height, world, back, triangle, found,
                   satVars, convertVars>>

\* from_world_vector panics: a subtraction overflows in a build with
\* overflow checks
FromWorldVectorPanics ==
    /\ pc = "map"
    /\ FromWorldOverflows(world, center, width, height)
    /\ pc' = "panic"
    /\ UNCHANGED <<center, width, height, mapVars, triangle, found,
                   satVars, convertVars>>

ToWorldVector ==
    /\ pc = "mapped"
    /\ back' = to_world_vector(local, center, width, height)
    /\ pc' = "returned"
    /\ UNCHANGED <<center, width, height, world, local, triangle, found,
                   satVars, convertVars>>

NextMap == FromWorldVector \/ FromWorldVectorPanics \/ ToWorldVector

SpecMap == InitMap /\ [][NextMap]_vars

\* C1 (mapping clamp law): for width > 0 and height > 0, whatever the world
\* point and the center, the coordinate from_world_vector returns has
\* 0 <= x <= width, 0 <= y <= width and 0 <= z <= height.
MappingClampLaw ==
    (pc \in {"mapped", "returned"} /\ width > 0 /\ height > 0) =>
        /\ 0 <= local[1] /\ local[1] <= width
        /\ 0 <= local[2] /\ local[2] <= width
        /\ 0 <= local[3] /\ local[3] <= height

\* a point beyond the grid on every axis, one axis at 2^31, has been mapped
MappingClampWitness ==
    /\ pc = "mapped" /\ width > 0 /\ height > 0
    /\ world[1] = FarNeg
    /\ world[2] - center[2] > 2 * width
    /\ center[3] - world[3] > 2 * height
    /\ local = <<0, width, 0>>

\* |world - center| <= width / 2 on X and Y and <= height / 2 on Z (halves)
InRange ==
    /\ \A i \in 1..3 : ~IsFar(world[i])
    /\ Abs(world[1] - center[1]) <= width
    /\ Abs(world[2] - center[2]) <= width
    /\ Abs(world[3] - center[3]) <= height

\* C2 (round-trip near-identity): for a world point within the half-extent
\* of the center on every axis, to_world_vector(from_world_vector(world))
\* differs from world by at most 1 unit (two halves) on each axis.
RoundTripNearIdentity ==
    (pc = "returned" /\ InRange) =>
        \A i \in 1..3 : Abs(2 * back[i] - world[i]) <= 2

\* an in-range point off the center, with a fractional center, whose round
\* trip is off by a full unit on one axis and exact on another
RoundTripWitness ==
    /\ pc = "returned" /\ InRange
    /\ \E i \in 1..3 : center[i] % 2 = 1
    /\ world # center
    /\ \E i \in 1..3 : Abs(2 * back[i] - world[i]) = 2
    /\ \E i \in 1..3 : 2 * back[i] = world[i]

----------------------------------------------------------------------------
(* The intersection test: is_inside of one voxel, for the triangle with    *)
(* its vertices in each of the six orderings.                              *)

InitSat ==
    /\ pc = "sat"
    /\ \/ triangle \in Triangles /\ voxel \in Voxels \cup BeyondVoxels
       \/ triangle \in TestTriangles /\ voxel \in TestVoxels
    /\ inside = <<>>
    /\ bbox = <<>>
    /\ center = <<0, 0, 0>>
    /\ width = 0
    /\ height = 0
    /\ found = <<>>
    /\ IdleMap
    /\ IdleConvert

IsInside ==
    /\ pc = "sat"
    /\ inside' = [o \in Orderings |-> is_inside(Reordered(triangle, o), voxel)]
    /\ pc' = "tested"
    /\ UNCHANGED <<center, width, height, triangle, voxel, bbox, found,
                   mapVars, convertVars>>

NextSat == IsInside

SpecSat == InitSat /\ [][NextSat]_vars

Identity == [i \in 1..3 |-> i]

Degenerate(t) == Normal(t[1], t[2], t[3]) = <<0, 0, 0>>

CubeHolds(vector, p) ==
    \A i \in 1..3 : Abs(p[i] - 2 * vector[i]) <= BoxHalfSize

----------------------------------------------------------------------------
(* The obstacle scanner: find_obstacles of one triangle.                   *)

InitScan ==
    /\ pc = "scan"
    /\ triangle \in ScanTriangles
    /\ center \in Centers
    /\ width \in ScanSizes
    /\ height \in ScanSizes
    /\ found = <<>>
    /\ IdleMap
    /\ IdleSat
    /\ IdleConvert

FindObstacles ==
    /\ pc = "scan"
    /\ found' = find_obstacles(triangle, center, width, height)
    /\ pc' = "scanned"
    /\ UNCHANGED <<center, width, height, triangle, mapVars, satVars,
                   convertVars>>

NextScan == FindObstacles

SpecScan == InitScan /\ [][NextScan]_vars

Range(seq) == {seq[i] : i \in 1..Len(seq)}

\* the voxels of the grid volume
GridVoxels(w, h) == {<<x, y, z>> : x \in 0..(w - 1), y \in 0..(w - 1),
                                   z \in 0..(h - 1)}

\* the grid voxels the triangle touches, by is_inside
Touched(t, c, w, h) ==
    {l \in GridVoxels(w, h) : is_inside(t, to_world_vector(l, c, w, h))}

\* C4 (scan completeness): find_obstacles returns every grid voxel l
\* (l.x < width, l.y < width, l.z < height) for which
\* is_inside(triangle, to_world_vector(l)) is true.
ScanCompleteness ==
    pc = "scanned" => Touched(triangle, center, width, height) \subseteq Range(found)

\* the local coordinates of the half-open scan box [min, max)
BoxVoxels(box) ==
    {<<x, y, z>> : x \in box[1][1]..(box[2][1] - 1),
                   y \in box[1][2]..(box[2][2] - 1),
                   z \in box[1][3]..(box[2][3] - 1)}

\* C6 (scanner result): find_obstacles returns exactly the coordinates l of
\* the half-open box [from_world_vector(bbox.min), from_world_vector(bbox.max))
\* for which is_inside(triangle, to_world_vector(l)) holds, each once, in
\* strictly ascending order by x, then y, then z.
ScannerResult ==
    pc = "scanned" =>
        /\ Range(found) =
              {l \in BoxVoxels(ScanBox(triangle, center, width, height)) :
                  is_inside(triangle, to_world_vector(l, center, width, height))}
        /\ \A i \in 1..(Len(found) - 1) : LexLess(found[i], found[i + 1])

\* a scan that returned voxels differing on X, on Y and on Z and left out a
\* voxel of its box
ScannerResultWitness ==
    /\ pc = "scanned"
    /\ \E i, j \in 1..Len(found) : found[i][1] # found[j][1]
    /\ \E i, j \in 1..Len(found) :
          found[i][1] = found[j][1] /\ found[i][2] # found[j][2]
    /\ \E i, j \in 1..Len(found) :
          /\ found[i][1] = found[j][1] /\ found[i][2] = found[j][2]
          /\ found[i][3] # found[j][3]
    /\ BoxVoxels(ScanBox(triangle, center, width, height)) \ Range(found) # {}

----------------------------------------------------------------------------
(* The aggregator: convert.  One step per iteration of its first loop,     *)
(* one for Grid::new, one per iteration of its second loop, one for the    *)
(* return.                                                                 *)

Init ==
    /\ pc = "scan_loop"
    /\ center \in ConvertCenters
    /\ \E size \in ConvertSizes : width = size[1] /\ height = size[2]
    /\ \E n \in 0..MaxTriangles :
          \E ts \in [1..n -> ConvertPool], kinds \in [1..n -> PreKinds] :
              /\ triangles = ts
              /\ preprocessor = [i \in 1..n |-> pre_process(kinds[i], ts[i])]
    /\ length = Len(triangles)
    /\ current = 0
    /\ percent = None
    /\ obstacles = <<>>
    /\ scanned = <<>>
    /\ progress = <<>>
    /\ grid = 0
    /\ setCalls = <<>>
    /\ triangle = NoTriangle
    /\ found = <<>>
    /\ IdleMap
    /\ IdleSat

\* `current as f32 * 100.0 / length as f32`, for the counter n of len
\* triangles
Percent(n, len) == F32Div(F32Mul(AsF32(n), 100), AsF32(len))

\* ProcessTriangle that adds only the obstacles not yet in the list
ProcessTriangleDedup ==
    /\ pc = "scan_loop"
    /\ current < length
    /\ preprocessor[current + 1] # None
    /\ LET processed_triangle == preprocessor[current + 1]
           NotYet(l) == \A i \in 1..Len(obstacles) : obstacles[i] # l
       IN  /\ scanned' = Append(scanned, processed_triangle)
           /\ obstacles' = obstacles
                 \o SelectSeq(find_obstacles(processed_triangle, center, width,
                                             height), NotYet)
    /\ current' = current + 1
    /\ percent' = Percent(current + 1, length)
    /\ progress' = Append(progress, percent')
    /\ UNCHANGED <<pc, center, width, height, triangle, found, triangles,
                   preprocessor, length, grid, setCalls, mapVars, satVars>>

\* ProcessTriangle that keeps only the obstacles of the triangle at hand
ProcessTriangleReplaces ==
    /\ pc = "scan_loop"
    /\ current < length
    /\ preprocessor[current + 1] # None
    /\ LET processed_triangle == preprocessor[current + 1]
       IN  /\ scanned' = Append(scanned, processed_triangle)
           /\ obstacles' = find_obstacles(processed_triangle, center, width,
                                          height)
    /\ current' = current + 1
    /\ percent' = Percent(current + 1, length)
    /\ progress' = Append(progress, percent')
    /\ UNCHANGED <<pc, center, width, height, triangle, found, triangles,
                   preprocessor, length, grid, setCalls, mapVars, satVars>>

\* an iteration of `for triangle in triangles` whose pre_process returns
\* Some(processed_triangle)
ProcessTriangle ==
    /\ pc = "scan_loop"
    /\ current < length
    /\ preprocessor[current + 1] # None
    /\ LET processed_triangle == preprocessor[current + 1]
       IN  /\ scanned' = Append(scanned, processed_triangle)
           /\ obstacles' = obstacles
                 \o find_obstacles(processed_triangle, center, width, height)
    /\ current' = current + 1
    /\ percent' = Percent(current + 1, length)
    /\ progress' = Append(progress, percent')
    /\ UNCHANGED <<pc, center, width, height, triangle, found, triangles,
                   preprocessor, length, grid, setCalls, mapVars, satVars>>

\* SkipTriangle that leaves the loop
SkipTriangleBreaks ==
    /\ pc = "scan_loop"
    /\ current < length
    /\ preprocessor[current + 1] = None
    /\ current' = length
    /\ percent' = Percent(length, length)
    /\ progress' = progress
          \o [k \in 1..(length - current) |-> Percent(current + k, length)]
    /\ UNCHANGED <<pc, center, width, height, triangle, found, triangles,
                   preprocessor, length, obstacles, scanned, grid, setCalls,
                   mapVars, satVars>>

\* an iteration of `for triangle in triangles` whose pre_process returns None
SkipTriangle ==
    /\ pc = "scan_loop"
    /\ current < length
    /\ preprocessor[current + 1] = None
    /\ current' = current + 1
    /\ percent' = Percent(current + 1, length)
    /\ progress' = Append(progress, percent')
    /\ UNCHANGED <<pc, center, width, height, triangle, found, triangles,
                   preprocessor, length, obstacles, scanned, grid, setCalls,
                   mapVars, satVars>>

\* `let mut grid = Grid::new(width, height)`, after the first loop
GridNew ==
    /\ pc = "scan_loop"
    /\ current = length
    /\ grid' = grid + 1
    /\ pc' = "write_loop"
    /\ UNCHANGED <<center, width, height, triangle, found, triangles,
                   preprocessor, length, current, percent, obstacles, scanned,
                   progress, setCalls, mapVars, satVars>>

\* SetObstacle with Grid::new inside the loop
SetObstacleFresh ==
    /\ pc = "write_loop"
    /\ Len(setCalls) < Len(obstacles)
    /\ grid' = grid + 1
    /\ setCalls' = Append(setCalls, obstacles[Len(setCalls) + 1])
    /\ UNCHANGED <<pc, center, width, height, triangle, found, triangles,
                   preprocessor, length, current, percent, obstacles, scanned,
                   progress, mapVars, satVars>>

\* an iteration of `for obstacle in obstacles`
SetObstacle ==
    /\ pc = "write_loop"
    /\ Len(setCalls) < Len(obstacles)
    /\ setCalls' = Append(setCalls, obstacles[Len(setCalls) + 1])
    /\ UNCHANGED <<pc, center, width, height, triangle, found, triangles,
                   preprocessor, length, current, percent, obstacles, scanned,
                   progress, grid, mapVars, satVars>>

\* `grid`: convert returns
Return ==
    /\ pc = "write_loop"
    /\ Len(setCalls) = Len(obstacles)
    /\ pc' = "done"
    /\ UNCHANGED <<center, width, height, triangle, found, triangles,
                   preprocessor, length, current, percent, obstacles, scanned,
                   progress, grid, setCalls, mapVars, satVars>>

Next == ProcessTriangle \/ SkipTriangle \/ GridNew \/ SetObstacle \/ Return

Spec == Init /\ [][Next]_vars

\* C7 (grid bounds): every coordinate convert passes to set_obstacle lies
\* inside the grid volume: x < width, y < width and z < height.
GridBounds ==
    \A i \in 1..Len(setCalls) :
        /\ 0 <= setCalls[i][1] /\ setCalls[i][1] < width
        /\ 0 <= setCalls[i][2] /\ setCalls[i][2] < width
        /\ 0 <= setCalls[i][3] /\ setCalls[i][3] < height

\* the scan box of t reaches the upper border of the grid on X: the box of
\* its bounding box is cut there
CutAtBorder(t) ==
    LocalAxisNoMin(bounding_box(t)[2][1], center[1], width) > width

\* the scan box of t ends at the lower border of the grid on X: t lies
\* below the grid
BelowGrid(t) == ScanBox(t, center, width, height)[2][1] = 0

\* convert has returned after scanning a triangle across the upper border
\* of the grid, which set the last voxel before the border, and a triangle
\* below the grid, which set none
GridBoundsWitness ==
    /\ pc = "done"
    /\ \E i \in 1..Len(scanned) :
          /\ CutAtBorder(scanned[i])
          /\ \E l \in Range(find_obstacles(scanned[i], center, width, height)) :
                l[1] = width - 1
    /\ \E i \in 1..Len(scanned) : BelowGrid(scanned[i])
    /\ \E i \in 1..Len(setCalls) : setCalls[i][1] = width - 1

\* v = <<m, e>> is the f32 nearest to the quotient p / q
NearestF32(v, p, q) == 2 * Abs(v[1] * q - p * 2^(v[2])) <= q

\* The progress protocol for the lists of at most MaxTriangles triangles:
\* update_progress is called once after each triangle, skipped ones
\* included; the k-th call carries the f32 nearest to k * 100 / n, the
\* values never decrease, and after the n >= 1 triangles there were exactly
\* n calls, the last with exactly 100.
ProgressProtocol ==
    LET n == Len(triangles)
    IN  /\ Len(progress) = current
        /\ \A k \in 1..Len(progress) :
              /\ progress[k] = Percent(k, n)
              /\ NearestF32(progress[k], k * 100, n)
              /\ 2^(MantissaBits - 1) <= progress[k][1]
              /\ progress[k][1] < 2^MantissaBits
        /\ \A k \in 1..(Len(progress) - 1) : F32Leq(progress[k], progress[k + 1])
        /\ (pc # "scan_loop" /\ n >= 1) =>
              /\ Len(progress) = n
              /\ progress[n] = Hundred

\* convert has returned for three triangles, one of them skipped: three
\* calls, the first with the f32 nearest to 100 / 3
ProgressWitness ==
    /\ pc = "done"
    /\ Len(triangles) = 3
    /\ \E i \in 1..3 : preprocessor[i] = None
    /\ Len(progress) = 3
    /\ progress[1] = <<8738133, 18>>
    /\ progress[3] = Hundred

----------------------------------------------------------------------------
(* The percent expression of convert's first loop as a function of         *)
(* `current` and `length`, for the long lists whose triangles the model    *)
(* does not hold: the end of the loop, from the last but one iteration on. *)

Lengths == (1..MaxTriangles) \cup ((MaxLength - LengthSpan)..MaxLength)

InitPercent ==
    /\ pc = "percent"
    /\ length \in Lengths
    /\ current \in {k \in {length - 2, length - 1} : k >= 0}
    /\ percent = None
    /\ center = NoVector
    /\ width = 0
    /\ height = 0
    /\ triangles = <<>>
    /\ preprocessor = <<>>
    /\ obstacles = <<>>
    /\ scanned = <<>>
    /\ progress = <<>>
    /\ grid = 0
    /\ setCalls = <<>>
    /\ triangle = NoTriangle
    /\ found = <<>>
    /\ IdleMap
    /\ IdleSat

\* `current += 1; let percent = current as f32 * 100.0 / length as f32;`
UpdateProgress ==
    /\ pc = "percent"
    /\ current < length
    /\ current' = current + 1
    /\ percent' = Percent(current + 1, length)
    /\ UNCHANGED <<pc, center, width, height, triangle, found, triangles,
                   preprocessor, length, obstacles, scanned, progress, grid,
                   setCalls, mapVars, satVars>>

NextPercent == UpdateProgress

SpecPercent == InitPercent /\ [][NextPercent]_vars

\* C8 (progress protocol): update_progress is called once after each of
\* the n >= 1 triangles with k * 100 / n for the k-th, the values never
\* decrease, and the last call carries exactly 100: here, the value
\* computed after the last triangle is exactly 100.
LastProgressIsHundred ==
    (current = length /\ percent # None) => percent = Hundred

\* the values computed in the last iterations never decrease
ProgressNeverDecreases ==
    [][percent # None => F32Leq(percent, percent')]_vars

\* the number of times l occurs in seq
Count(seq, l) == Cardinality({i \in 1..Len(seq) : seq[i] = l})

\* for each triangle (by position) the coordinates its scan returns, none
\* for a skipped triangle
Produced ==
    [i \in 1..Len(preprocessor) |->
        IF preprocessor[i] = None THEN {}
        ELSE Range(find_obstacles(preprocessor[i], center, width, height))]

\* C9 (grid writes): set_obstacle is called once for each pair of a
\* non-skipped triangle and a coordinate of its find_obstacles, and for no
\* other coordinate: a voxel k triangles produce is set exactly k times.
GridWrites ==
    /\ Len(setCalls) <= Len(obstacles)
    /\ \A i \in 1..Len(setCalls) : setCalls[i] = obstacles[i]
    /\ pc = "done" =>
          LET produced == Produced
          IN  \A l \in GridVoxels(width + 1, height + 1) \cup Range(setCalls) :
                  Count(setCalls, l)
                      = Cardinality({i \in DOMAIN produced : l \in produced[i]})

\* convert has returned after setting one voxel three times, another twice
\* and a third never
GridWritesWitness ==
    /\ pc = "done"
    /\ \E l \in Range(setCalls) : Count(setCalls, l) = 3
    /\ \E l \in Range(setCalls) : Count(setCalls, l) = 2
    /\ \E l \in GridVoxels(width, height) : Count(setCalls, l) = 0

IsSome(r) == r # None

RECURSIVE ObstaclesOf(_)
\* the obstacles of the triangles ts, in order
ObstaclesOf(ts) ==
    IF ts = <<>> THEN <<>>
    ELSE find_obstacles(Head(ts), center, width, height) \o ObstaclesOf(Tail(ts))

\* C10 (preprocessor skip): a triangle for which pre_process returns None
\* contributes no obstacle and does not stop convert: the triangles scanned
\* are the Some results in input order, and the obstacles are those of the
\* input without the skipped triangles; with NoOpPreprocessor the triangles
\* scanned are the input triangles unchanged.
PreprocessorSkip ==
    pc = "done" =>
        /\ current = Len(triangles)
        /\ scanned = SelectSeq(preprocessor, IsSome)
        /\ obstacles = ObstaclesOf(SelectSeq(preprocessor, IsSome))
        /\ setCalls = obstacles
        /\ (preprocessor = triangles) => scanned = triangles

\* convert has returned for three triangles: the second was skipped, the
\* first was passed on unchanged and the third was replaced, and both set
\* obstacles
PreprocessorSkipWitness ==
    /\ pc = "done"
    /\ Len(triangles) = 3
    /\ preprocessor[1] = triangles[1]
    /\ preprocessor[2] = None
    /\ preprocessor[3] = Moved(triangles[3])
    /\ Len(scanned) = 2
    /\ find_obstacles(scanned[1], center, width, height) # <<>>
    /\ find_obstacles(scanned[2], center, width, height) # <<>>
    /\ find_obstacles(triangles[2], center, width, height) # <<>>

\* the occupied voxels of the grid: those set_obstacle was called for (the
\* Grid is an external type; setting a voxel that is set changes nothing)
Occupied == Range(setCalls)

\* the triangles pre_process returned, as a set: neither their order nor
\* their repetitions
ProcessedSet == {preprocessor[i] : i \in DOMAIN preprocessor} \ {None}

\* the union of find_obstacles over the triangles of S
UnionOf(S) ==
    UNION {Range(find_obstacles(t, center, width, height)) : t \in S}

\* C11 (order-independent, idempotent aggregation): the occupied voxels of
\* the grid convert returns are the union of find_obstacles over the
\* non-skipped triangles: they depend on the set of these triangles only,
\* not on their order in the list nor on a triangle being repeated.
AggregationIsUnion ==
    pc = "done" => Occupied = UnionOf(ProcessedSet)

\* convert has returned for a list with a triangle repeated after a larger
\* one (so not in ascending order), a voxel was set more than once and the
\* two triangles do not have the same obstacles
AggregationWitness ==
    /\ pc = "done"
    /\ Len(triangles) = 3
    /\ preprocessor[1] # None
    /\ preprocessor[2] # None
    /\ preprocessor[3] = preprocessor[1]
    /\ preprocessor[2] # preprocessor[1]
    /\ UnionOf({preprocessor[1]}) # {}
    /\ UnionOf({preprocessor[2]}) \ UnionOf({preprocessor[1]}) # {}
    /\ UnionOf({preprocessor[1]}) \ UnionOf({preprocessor[2]}) # {}
    /\ Cardinality(Occupied) < Len(setCalls)

----------------------------------------------------------------------------
(* The borders of the coordinate mapper, checked under SpecMap.            *)

\* the point v is more than the half-extent size / 2 above the center c on
\* an axis (coordinates in halves, so size / 2 units are size halves)
AboveExtent(v, c, size) == F32Sub(c, v) < -size

\* the point v is more than the half-extent below the center c on an axis
BelowExtent(v, c, size) == F32Sub(c, v) > size

\* the local coordinate l of an axis is at the border its point lies beyond
AtBorder(l, v, c, size) ==
    /\ AboveExtent(v, c, size) => l = size
    /\ BelowExtent(v, c, size) => l = 0

\* C12 (border clamping direction): on each axis a point more than the
\* half-extent above the center maps to the upper border (width on X and Y,
\* height on Z) and a point more than the half-extent below it maps to 0,
\* at every distance, 2^31 units included.
ClampDirection ==
    pc \in {"mapped", "returned"} =>
        /\ AtBorder(local[1], world[1], center[1], width)
        /\ AtBorder(local[2], world[2], center[2], width)
        /\ AtBorder(local[3], world[3], center[3], height)

\* the same for the points less than 2^31 units away
ClampDirectionNear ==
    pc \in {"mapped", "returned"} =>
        /\ ~IsFar(world[1]) => AtBorder(local[1], world[1], center[1], width)
        /\ ~IsFar(world[2]) => AtBorder(local[2], world[2], center[2], width)
        /\ ~IsFar(world[3]) => AtBorder(local[3], world[3], center[3], height)

\* a point 2^31 units below the center maps to 0
ClampDirectionFarBelow ==
    pc \in {"mapped", "returned"} =>
        /\ world[1] = FarNeg => local[1] = 0
        /\ world[2] = FarNeg => local[2] = 0
        /\ world[3] = FarNeg => local[3] = 0

----------------------------------------------------------------------------
(* Containment, checked under SpecSat.                                     *)

\* the point p lies on the segment from a to b
OnSegment(p, a, b) ==
    /\ a = b => p = a
    /\ Cross(Sub(b, a), Sub(p, a)) = <<0, 0, 0>>
    /\ Dot(Sub(p, a), Sub(b, a)) >= 0
    /\ Dot(Sub(p, b), Sub(a, b)) >= 0

\* the point p lies on one of the three edges of t
OnEdge(t, p) ==
    OnSegment(p, t[1], t[2]) \/ OnSegment(p, t[2], t[3])
        \/ OnSegment(p, t[1], t[3])

\* the point p (halves) lies on the triangle t: in its plane and within or
\* on its edges; on one of its edges when t has no face
OnTriangle(t, p) ==
    LET n == Cross(Sub(t[2], t[1]), Sub(t[3], t[1]))
        Side(a, b) == Dot(Cross(Sub(b, a), Sub(p, a)), n)
    IN  IF n = <<0, 0, 0>> THEN OnEdge(t, p)
        ELSE /\ Dot(n, Sub(p, t[1])) = 0
             /\ Side(t[1], t[2]) >= 0
             /\ Side(t[2], t[3]) >= 0
             /\ Side(t[3], t[1]) >= 0

\* the center point of a voxel, in halves
CenterPoint(vector) == <<2 * vector[1], 2 * vector[2], 2 * vector[3]>>

CubeDisjoint(vector, box) ==
    \E i \in 1..3 :
        \/ 2 * vector[i] + BoxHalfSize < box[1][i]
        \/ 2 * vector[i] - BoxHalfSize > box[2][i]

----------------------------------------------------------------------------
(* The bounding box: bounding_box of one triangle, its vertices in every   *)
(* order.                                                                  *)

InitBox ==
    /\ pc = "box"
    /\ \E t \in Triangles \cup TestTriangles \cup FarTriangles, o \in Orderings :
          triangle = Reordered(t, o)
    /\ center = <<0, 0, 0>>
    /\ width = 0
    /\ height = 0
    /\ found = <<>>
    /\ IdleMap
    /\ IdleSat
    /\ IdleConvert

BoundingBox ==
    /\ pc = "box"
    /\ bbox' = bounding_box(triangle)
    /\ pc' = "boxed"
    /\ UNCHANGED <<center, width, height, triangle, voxel, inside, found,
                   mapVars, convertVars>>

NextBox == BoundingBox

SpecBox == InitBox /\ [][NextBox]_vars

\* C15 as claimed (triangle bounding box): on every axis min is one unit
\* (two halves) below the least vertex coordinate and max one unit above
\* the greatest, so min <= max with max - min >= 2 units and every vertex
\* is inside the box; for a = (0,0,0), b = (5,5,0), c = (-5,-5,0) the box
\* is min = (-6,-6,-1), max = (6,6,1).
BoundingBoxLaw ==
    pc = "boxed" =>
        /\ \A i \in 1..3 :
              /\ \A k \in 1..3 : bbox[1][i] + 2 <= triangle[k][i]
              /\ \E k \in 1..3 : bbox[1][i] + 2 = triangle[k][i]
              /\ \A k \in 1..3 : bbox[2][i] - 2 >= triangle[k][i]
              /\ \E k \in 1..3 : bbox[2][i] - 2 = triangle[k][i]
              /\ bbox[1][i] <= bbox[2][i]
              /\ bbox[2][i] - bbox[1][i] >= 4
              /\ \A k \in 1..3 :
                    bbox[1][i] <= triangle[k][i] /\ triangle[k][i] <= bbox[2][i]
        /\ triangle = <<<<0, 0, 0>>, <<10, 10, 0>>, <<-10, -10, 0>>>> =>
              bbox = <<<<-12, -12, -2>>, <<12, 12, 2>>>>

\* f32 holds the least vertex coordinate of axis i minus 1.0
ExactBelow(t, i) == ~IsFar(Min3(t[1][i], t[2][i], t[3][i]))

\* f32 holds the greatest vertex coordinate of axis i plus 1.0
ExactAbove(t, i) == ~IsFar(Max3(t[1][i], t[2][i], t[3][i]))

\* C15 as amended: on every axis min <= max and every vertex is inside the
\* box; min is the least vertex coordinate minus 1 and max the greatest
\* plus 1 in f32 arithmetic: exactly one unit off where f32 holds that
\* value, and max - min >= 2 where it does at both ends; for a = (0,0,0),
\* b = (5,5,0), c = (-5,-5,0) the box is min = (-6,-6,-1), max = (6,6,1).
BoundingBoxEncloses ==
    pc = "boxed" =>
        /\ \A i \in 1..3 :
              /\ bbox[1][i] <= bbox[2][i]
              /\ \A k \in 1..3 :
                    bbox[1][i] <= triangle[k][i] /\ triangle[k][i] <= bbox[2][i]
              /\ ExactBelow(triangle, i) =>
                    /\ \A k \in 1..3 : bbox[1][i] + 2 <= triangle[k][i]
                    /\ \E k \in 1..3 : bbox[1][i] + 2 = triangle[k][i]
              /\ ExactAbove(triangle, i) =>
                    /\ \A k \in 1..3 : bbox[2][i] - 2 >= triangle[k][i]
                    /\ \E k \in 1..3 : bbox[2][i] - 2 = triangle[k][i]
              /\ (ExactBelow(triangle, i) /\ ExactAbove(triangle, i)) =>
                    bbox[2][i] - bbox[1][i] >= 4
        /\ triangle = <<<<0, 0, 0>>, <<10, 10, 0>>, <<-10, -10, 0>>>> =>
              bbox = <<<<-12, -12, -2>>, <<12, 12, 2>>>>

\* the box of the triangle of test_bounding_box2 has been computed
BoundingBoxWitness ==
    /\ pc = "boxed"
    /\ triangle = <<<<0, 0, 0>>, <<10, 10, 0>>, <<-10, -10, 0>>>>
    /\ bbox = <<<<-12, -12, -2>>, <<12, 12, 2>>>>

----------------------------------------------------------------------------
(* The lifecycle of the grid, checked under Spec.                          *)

\* C16 as claimed (grid lifecycle ordering): the grid is created exactly
\* once, before the scan of the first triangle: before any find_obstacles
\* call and before any progress callback.
GridCreatedBeforeScan ==
    /\ grid <= 1
    /\ pc = "done" => grid = 1
    /\ (scanned # <<>> \/ progress # <<>>) => grid = 1

\* C16 as amended: the grid is created exactly once, after the scan of the
\* last triangle (after every find_obstacles call and every progress
\* callback) and before the first set_obstacle call.
GridCreatedAfterScan ==
    /\ grid <= 1
    /\ pc = "done" => grid = 1
    /\ grid = 0 => setCalls = <<>>
    /\ grid = 1 =>
          /\ current = length
          /\ Len(progress) = length
          /\ scanned = SelectSeq(preprocessor, IsSome)

\* no step after Grid::new scans a triangle or reports progress
NoScanAfterGridNew ==
    [][grid = 1 => (scanned' = scanned /\ progress' = progress /\ grid' = 1)]_vars

\* convert has returned after scanning two triangles and setting obstacles
\* in the one grid it created
GridLifecycleWitness ==
    /\ pc = "done"
    /\ grid = 1
    /\ Len(scanned) >= 2
    /\ Len(progress) = 3
    /\ setCalls # <<>>

====
